---- MODULE Spec2Model ----
(***************************************************************************)
(* Model of the SSH file transfer API: the POST /api/v1/transfers handler  *)
(* (internal/api), the session factory ssh.NewClient and the orchestrator  *)
(* Client.TransferFile (internal/ssh).  One request is in flight at a      *)
(* time; the server serves up to MaxRequests requests one after another.   *)
(***************************************************************************)
EXTENDS Integers, Sequences, FiniteSets, TLC

(* ------------------------------ bounds -------------------------------- *)
MaxLen == 2
MaxTime == 2
MaxRequests == 2
MaxStarted == 3
RateLimitRequests == 1
RateLimitDuration == 1

(* --------------------------- program constants ------------------------ *)
DefaultSSHPort == 22
SessionTimeout == 30
StatusBadRequest == 400
StatusInternalServerError == 500
StatusOK == 200
StatusTooManyRequests == 429
StubBytesTransferred == 1024
OneMinute == 60

Nil == [nil |-> TRUE]
NoErr == ""

(* ------------------------------ input sets ---------------------------- *)
ReqUsernames == {"", "ru"}
ReqPasswords == {"", "rp"}
ReqKeyPaths == {"", "rk_ok", "rk_unreadable", "rk_invalid"}
CfgUsernames == {"", "du"}
CfgPasswords == {"", "dp"}
CfgKeyPaths == {"", "dk_ok", "dk_unreadable", "dk_invalid"}
Hosts == {"", "h"}
Ports == {0, DefaultSSHPort}
SourcePaths == {"", "/tmp/a.txt", "/tmp/missing"}
TargetPaths == {"", "/remote/dir/a.txt"}

(* config.Config, the SSH related fields *)
Configs ==
  [SSHUsername : CfgUsernames, SSHPassword : CfgPasswords, SSHKeyPath : CfgKeyPaths]

(* models.FileTransferRequest *)
FileTransferRequest ==
  [TargetHost : Hosts, TargetPort : Ports, SourceFilePath : SourcePaths,
   TargetFilePath : TargetPaths, Username : ReqUsernames, Password : ReqPasswords,
   PrivateKeyPath : ReqKeyPaths]

(* binding:"required" of gin's validator: a required field must not hold
   the zero value of its type ("" for strings, 0 for ints) *)
BindOK(r) ==
  /\ r.TargetHost # ""
  /\ r.TargetPort # 0
  /\ r.SourceFilePath # ""
  /\ r.TargetFilePath # ""

(* the request payloads the model sends: every payload that binds, and
   the payloads with a required field missing that carry no credentials *)
Requests ==
  {r \in FileTransferRequest :
     BindOK(r) \/ (r.Username = "" /\ r.Password = "" /\ r.PrivateKeyPath = "")}

(* --------------------------- local file system ------------------------ *)
(* os.ReadFile of a key path: err is "" on success *)
ReadFile(path) ==
  IF path \in {"rk_unreadable", "dk_unreadable"}
    THEN [data |-> "", err |-> "open: no such file or directory"]
    ELSE [data |-> path, err |-> NoErr]

(* ssh.ParsePrivateKey of the bytes read *)
ParsePrivateKey(data) ==
  IF data \in {"rk_invalid", "dk_invalid"}
    THEN [signer |-> "", err |-> "ssh: no key found"]
    ELSE [signer |-> data, err |-> NoErr]

(* content of the local source files; os.Open fails for the others *)
SourceExists(path) == path = "/tmp/a.txt"

SourceContent(path) == IF SourceExists(path) THEN [i \in 1..MaxLen |-> i] ELSE <<>>

(* ------------------------- ssh.ClientConfig --------------------------- *)
PasswordAuth(password) == [kind |-> "password", secret |-> password]

PublicKeysAuth(signer) == [kind |-> "publickey", secret |-> signer]

ClientConfig(user, auth) ==
  [User |-> user, Auth |-> auth,
   HostKeyCallback |-> "InsecureIgnoreHostKey", Timeout |-> SessionTimeout]

(* a key reader that does not look at the result of ParsePrivateKey *)
AuthFromKeyNoParseCheck(keyPath) ==
  LET rd == ReadFile(keyPath)
  IN  IF rd.err # NoErr
        THEN [auth |-> <<>>, err |-> "unable to read private key", reads |-> <<keyPath>>]
        ELSE [auth |-> <<PublicKeysAuth(rd.data)>>, err |-> NoErr, reads |-> <<keyPath>>]

(* the authentication part shared by NewClient and by the override in
   TransferFile: password first, else the key read from keyPath.  reads
   lists the paths handed to os.ReadFile. *)
AuthFromKey(keyPath) ==
  LET rd == ReadFile(keyPath)
      pk == ParsePrivateKey(rd.data)
  IN  IF rd.err # NoErr
        THEN [auth |-> <<>>, err |-> "unable to read private key", reads |-> <<keyPath>>]
      ELSE IF pk.err # NoErr
        THEN [auth |-> <<>>, err |-> "unable to parse private key", reads |-> <<keyPath>>]
      ELSE [auth |-> <<PublicKeysAuth(pk.signer)>>, err |-> NoErr, reads |-> <<keyPath>>]

(* a NewClient that looks at the key path before the password *)
NewClientKeyFirst(username, password, keyPath) ==
  IF keyPath # ""
    THEN LET k == AuthFromKey(keyPath)
         IN  [client |-> IF k.err = NoErr THEN ClientConfig(username, k.auth) ELSE Nil,
              err |-> k.err, reads |-> k.reads]
  ELSE IF password # ""
    THEN [client |-> ClientConfig(username, <<PasswordAuth(password)>>),
          err |-> NoErr, reads |-> <<>>]
  ELSE [client |-> Nil, err |-> "either password or keyPath must be provided",
        reads |-> <<>>]

(* a NewClient without the final else: no credential, no error *)
NewClientNoCredentialCheck(username, password, keyPath) ==
  IF password # ""
    THEN [client |-> ClientConfig(username, <<PasswordAuth(password)>>),
          err |-> NoErr, reads |-> <<>>]
  ELSE IF keyPath # ""
    THEN LET k == AuthFromKey(keyPath)
         IN  [client |-> IF k.err = NoErr THEN ClientConfig(username, k.auth) ELSE Nil,
              err |-> k.err, reads |-> k.reads]
  ELSE [client |-> ClientConfig(username, <<>>), err |-> NoErr, reads |-> <<>>]

(* ssh.NewClient: the Client is represented by its config *)
NewClient(username, password, keyPath) ==
  IF password # ""
    THEN [client |-> ClientConfig(username, <<PasswordAuth(password)>>),
          err |-> NoErr, reads |-> <<>>]
  ELSE IF keyPath # ""
    THEN LET k == AuthFromKey(keyPath)
         IN  [client |-> IF k.err = NoErr THEN ClientConfig(username, k.auth) ELSE Nil,
              err |-> k.err, reads |-> k.reads]
  ELSE [client |-> Nil, err |-> "either password or keyPath must be provided",
        reads |-> <<>>]

(* an override that fills the fields the request leaves empty from the
   Client's config *)
OverrideConfigMerged(cconfig, r) ==
  IF r.Password # ""
    THEN [config |-> ClientConfig(IF r.Username # "" THEN r.Username ELSE cconfig.User,
                                  <<PasswordAuth(r.Password)>>),
          err |-> NoErr, reads |-> <<>>]
  ELSE IF r.PrivateKeyPath # ""
    THEN LET k == AuthFromKey(r.PrivateKeyPath)
         IN  [config |-> IF k.err = NoErr
                           THEN ClientConfig(IF r.Username # "" THEN r.Username
                                             ELSE cconfig.User, k.auth)
                           ELSE Nil,
              err |-> k.err, reads |-> k.reads]
  ELSE [config |-> ClientConfig(IF r.Username # "" THEN r.Username ELSE cconfig.User,
                                cconfig.Auth),
        err |-> NoErr, reads |-> <<>>]

(* TransferFile, the choice of the config to dial with: the Client's
   config, or a fresh one when the request names a credential *)
OverrideConfig(cconfig, r) ==
  IF r.Username # "" \/ r.Password # "" \/ r.PrivateKeyPath # ""
    THEN IF r.Password # ""
           THEN [config |-> ClientConfig(r.Username, <<PasswordAuth(r.Password)>>),
                 err |-> NoErr, reads |-> <<>>]
         ELSE IF r.PrivateKeyPath # ""
           THEN LET k == AuthFromKey(r.PrivateKeyPath)
                IN  [config |-> IF k.err = NoErr THEN ClientConfig(r.Username, k.auth)
                                ELSE Nil,
                     err |-> k.err, reads |-> k.reads]
         ELSE [config |-> ClientConfig(r.Username, <<>>), err |-> NoErr, reads |-> <<>>]
    ELSE [config |-> cconfig, err |-> NoErr, reads |-> <<>>]

(* Server.TransferFile, the port default and the per-field resolution *)
WithDefaultPort(r) ==
  IF r.TargetPort = 0 THEN [r EXCEPT !.TargetPort = DefaultSSHPort] ELSE r

Resolve(value, default) == IF value = "" THEN default ELSE value

(* ------------------------------- state -------------------------------- *)
VARIABLES
  cfg,        \* Server.config: the service default credentials
  pc,         \* position of the request handler
  req,        \* the bound request (req of Server.TransferFile)
  served,     \* number of requests answered so far
  now,        \* the clock read by time.Now()
  client,     \* the *Client made by NewClient (its config), or Nil
  config,     \* TransferFile's local config, the one handed to ssh.Dial
  keyReads,   \* os.ReadFile calls of this request: [by, path]
  dials,      \* ssh.Dial calls of this request: [host, port, config]
  stages,     \* stage operations attempted by this request: [name, ok]
  open,       \* handles currently open
  defers,     \* deferred Close calls of the running TransferFile
  closeLog,   \* handles closed by this request, in order
  closeFailed,\* TRUE when a Close of the running TransferFile returned an error
  remote,     \* remote side: [dir, exists, data] of the target path
  startTime,  \* startTime of TransferFile
  resp,       \* first return value of TransferFile, or Nil
  err,        \* second return value of TransferFile ("" is nil)
  http,       \* response written by the handler, or Nil
  completions,\* number of transfers completed since the server started
  clients,    \* RateLimiter: the clients map, address -> [count, lastSeen] or Nil
  hpc,        \* concurrent handlers: position of each
  hloc,       \* concurrent handlers: locals [ip, now, startTime] of each
  hres,       \* concurrent handlers: response written by each, or Nil
  started,    \* concurrent handlers: number of requests accepted so far
  admitted    \* requests the RateLimiter let through: [ip, t], t its reading of the clock

(* the state of the concurrently running request handlers *)
concVars == <<clients, hpc, hloc, hres, started, admitted>>

vars ==
  <<cfg, pc, req, served, now, client, config, keyReads, dials, stages, open,
    defers, closeLog, closeFailed, remote, startTime, resp, err, http, completions,
    concVars>>

(* client addresses and request handlers (goroutines) of the concurrent part *)
IPs == {"ip1", "ip2"}

Workers == {"w1", "w2"}

Handles == {"conn", "sftp", "src", "dst"}

StageNames == <<"dial", "sftp", "open", "mkdir", "create", "copy">>

(* the message each failing stage puts before the cause in Error *)
StageError(stage) ==
  CASE stage = "dial"   -> "failed to connect to SSH server"
    [] stage = "sftp"   -> "failed to create SFTP client"
    [] stage = "open"   -> "failed to open source file"
    [] stage = "mkdir"  -> "failed to create target directory"
    [] stage = "create" -> "failed to create target file"
    [] stage = "copy"   -> "failed to copy file contents"

(* the err value the failing library call of a stage returns *)
StageCause(stage) ==
  CASE stage = "dial"   -> "dial tcp: connection refused"
    [] stage = "sftp"   -> "sftp: subsystem request failed"
    [] stage = "open"   -> "open: no such file or directory"
    [] stage = "mkdir"  -> "sftp: permission denied (mkdir)"
    [] stage = "create" -> "sftp: permission denied (create)"
    [] stage = "copy"   -> "sftp: write failed"

(* a failed response whose BytesWritten field was left out *)
FailedResponseNoBytes(r, stage, bytesWritten, start, end, since) ==
  [ID |-> <<>>, Status |-> "failed", SourceFile |-> r.SourceFilePath,
   TargetFile |-> r.TargetFilePath, TargetHost |-> r.TargetHost,
   BytesWritten |-> 0, StartTime |-> start, EndTime |-> end,
   Duration |-> since - start, Error |-> <<StageError(stage), StageCause(stage)>>]

(* a failed response whose Error field was left out *)
FailedResponseNoError(r, stage, bytesWritten, start, end, since) ==
  [ID |-> <<>>, Status |-> "failed", SourceFile |-> r.SourceFilePath,
   TargetFile |-> r.TargetFilePath, TargetHost |-> r.TargetHost,
   BytesWritten |-> bytesWritten, StartTime |-> start, EndTime |-> end,
   Duration |-> since - start, Error |-> <<>>]

(* a failed response that is given an identifier like a completed one *)
FailedResponseWithID(r, stage, bytesWritten, start, end, since) ==
  [ID |-> <<"transfer-", end>>, Status |-> "failed", SourceFile |-> r.SourceFilePath,
   TargetFile |-> r.TargetFilePath, TargetHost |-> r.TargetHost,
   BytesWritten |-> bytesWritten, StartTime |-> start, EndTime |-> end,
   Duration |-> since - start, Error |-> <<StageError(stage), StageCause(stage)>>]

(* models.FileTransferResponse of a failing stage; ID stays the zero value *)
FailedResponse(r, stage, bytesWritten, start, end, since) ==
  [ID |-> <<>>, Status |-> "failed", SourceFile |-> r.SourceFilePath,
   TargetFile |-> r.TargetFilePath, TargetHost |-> r.TargetHost,
   BytesWritten |-> bytesWritten, StartTime |-> start, EndTime |-> end,
   Duration |-> since - start, Error |-> <<StageError(stage), StageCause(stage)>>]

(* a completed response whose BytesWritten field was left out *)
CompletedResponseNoBytes(r, bytesWritten, start, end, idTime) ==
  [ID |-> <<"transfer-", idTime>>, Status |-> "completed",
   SourceFile |-> r.SourceFilePath, TargetFile |-> r.TargetFilePath,
   TargetHost |-> r.TargetHost, BytesWritten |-> 0,
   StartTime |-> start, EndTime |-> end, Duration |-> end - start, Error |-> <<>>]

(* models.FileTransferResponse of the success path; Error stays empty *)
CompletedResponse(r, bytesWritten, start, end, idTime) ==
  [ID |-> <<"transfer-", idTime>>, Status |-> "completed",
   SourceFile |-> r.SourceFilePath, TargetFile |-> r.TargetFilePath,
   TargetHost |-> r.TargetHost, BytesWritten |-> bytesWritten,
   StartTime |-> start, EndTime |-> end, Duration |-> end - start, Error |-> <<>>]

(* models.APIError *)
APIError(code, message, details) ==
  [Code |-> code, Message |-> message, Details |-> details]

(* later readings of the clock inside one return statement *)
LaterReadings == {t \in {now, now + 1} : t <= MaxTime}

Init ==
  /\ cfg \in Configs
  /\ pc = "idle"
  /\ req = Nil
  /\ served = 0
  /\ now = 0
  /\ client = Nil
  /\ config = Nil
  /\ keyReads = <<>>
  /\ dials = <<>>
  /\ stages = <<>>
  /\ open = {}
  /\ defers = <<>>
  /\ closeLog = <<>>
  /\ closeFailed = FALSE
  /\ remote = [dir |-> FALSE, exists |-> FALSE, data |-> <<>>]
  /\ startTime = 0
  /\ resp = Nil
  /\ err = NoErr
  /\ http = Nil
  /\ completions = 0
  /\ clients = [ip \in IPs |-> Nil]
  /\ hpc = [w \in Workers |-> "idle"]
  /\ hloc = [w \in Workers |-> Nil]
  /\ hres = [w \in Workers |-> Nil]
  /\ started = 0
  /\ admitted = <<>>

ReadsBy(who, paths) == [i \in 1..Len(paths) |-> [by |-> who, path |-> paths[i]]]

(* Server.TransferFile up to the call of client.TransferFile: bind the
   payload, default the port, resolve the credentials, NewClient *)
ServerTransferFile(r) ==
  /\ UNCHANGED <<completions, closeFailed, concVars>>
  /\ pc = "idle"
  /\ served < MaxRequests
  /\ UNCHANGED <<cfg, now, config, dials, stages, open, defers, closeLog, remote,
                 startTime, resp, err>>
  /\ IF ~BindOK(r)
       THEN /\ req' = r
            /\ client' = Nil
            /\ keyReads' = <<>>
            /\ http' = [code |-> StatusBadRequest,
                        body |-> APIError(StatusBadRequest, "Invalid request payload",
                                          "validation failed")]
            /\ served' = served + 1
            /\ pc' = "done"
       ELSE LET username == Resolve(r.Username, cfg.SSHUsername)
                password == Resolve(r.Password, cfg.SSHPassword)
                keyPath == Resolve(r.PrivateKeyPath, cfg.SSHKeyPath)
                nc == NewClient(username, password, keyPath)
            IN  /\ req' = WithDefaultPort(r)
                /\ client' = nc.client
                /\ keyReads' = ReadsBy("NewClient", nc.reads)
                /\ IF nc.err # NoErr
                     THEN /\ http' = [code |-> StatusInternalServerError,
                                      body |-> APIError(StatusInternalServerError,
                                                        "Failed to create SSH client",
                                                        nc.err)]
                          /\ served' = served + 1
                          /\ pc' = "done"
                     ELSE /\ http' = Nil
                          /\ served' = served
                          /\ pc' = "tf_config"

(* an entry of TransferFile that stores the config built from the request
   in the Client *)
TFConfigInPlace ==
  /\ UNCHANGED <<completions, closeFailed, concVars>>
  /\ pc = "tf_config"
  /\ startTime' = now
  /\ LET oc == OverrideConfig(client, req)
     IN  /\ keyReads' = keyReads \o ReadsBy("TransferFile", oc.reads)
         /\ config' = oc.config
         /\ client' = IF oc.err = NoErr THEN oc.config ELSE client
         /\ IF oc.err # NoErr
              THEN /\ resp' = Nil
                   /\ err' = oc.err
                   /\ pc' = "tf_returned"
              ELSE /\ UNCHANGED <<resp, err>>
                   /\ pc' = "dial"
  /\ UNCHANGED <<cfg, req, served, now, dials, stages, open, defers,
                 closeLog, remote, http>>

(* TransferFile, entry: startTime and the choice of the config *)
TFConfig ==
  /\ UNCHANGED <<completions, closeFailed, concVars>>
  /\ pc = "tf_config"
  /\ startTime' = now
  /\ LET oc == OverrideConfig(client, req)
     IN  /\ keyReads' = keyReads \o ReadsBy("TransferFile", oc.reads)
         /\ config' = oc.config
         /\ IF oc.err # NoErr
              THEN /\ resp' = Nil
                   /\ err' = oc.err
                   /\ pc' = "tf_returned"
              ELSE /\ UNCHANGED <<resp, err>>
                   /\ pc' = "dial"
  /\ UNCHANGED <<cfg, req, served, now, client, dials, stages, open, defers,
                 closeLog, remote, http>>

(* a return statement of a failing stage: the response is built with two
   readings of the clock (EndTime, then time.Since), the deferred calls
   run next *)
ReturnFailed(stage, bytesWritten) ==
  \E since \in LaterReadings :
    /\ resp' = FailedResponse(req, stage, bytesWritten, startTime, now, since)
    /\ err' = StageCause(stage)
    /\ now' = since
    /\ pc' = "tf_defers"

(* the transport's Close is not deferred *)
DeferSkipConn(stack, h) == IF h = "conn" THEN stack ELSE Append(stack, h)

(* defer h.Close() *)
Defer(stack, h) == Append(stack, h)

Reverse(seq) == [i \in 1..Len(seq) |-> seq[Len(seq) + 1 - i]]

Range(seq) == {seq[i] : i \in 1..Len(seq)}

(* a dial that is tried again after it failed *)
TFDialRetry ==
  /\ UNCHANGED <<completions, closeFailed, concVars>>
  /\ pc = "dial"
  /\ dials' = Append(dials, [host |-> req.TargetHost, port |-> req.TargetPort,
                             config |-> config])
  /\ \E ok \in BOOLEAN :
       /\ stages' = Append(stages, [name |-> "dial", ok |-> ok])
       /\ IF ok
            THEN /\ open' = open \cup {"conn"}
                 /\ defers' = Defer(defers, "conn")
                 /\ pc' = "sftp"
                 /\ UNCHANGED <<resp, err, now>>
            ELSE /\ IF Len(dials) = 0
                      THEN pc' = "dial" /\ UNCHANGED <<resp, err, now>>
                      ELSE ReturnFailed("dial", 0)
                 /\ UNCHANGED <<open, defers>>
  /\ UNCHANGED <<cfg, req, served, client, config, keyReads, closeLog, remote,
                 startTime, http>>

(* ssh.Dial("tcp", addr, config) *)
TFDial ==
  /\ UNCHANGED <<completions, closeFailed, concVars>>
  /\ pc = "dial"
  /\ dials' = Append(dials, [host |-> req.TargetHost, port |-> req.TargetPort,
                             config |-> config])
  /\ \E ok \in BOOLEAN :
       /\ stages' = Append(stages, [name |-> "dial", ok |-> ok])
       /\ IF ok
            THEN /\ open' = open \cup {"conn"}
                 /\ defers' = Defer(defers, "conn")
                 /\ pc' = "sftp"
                 /\ UNCHANGED <<resp, err, now>>
            ELSE /\ ReturnFailed("dial", 0)
                 /\ UNCHANGED <<open, defers>>
  /\ UNCHANGED <<cfg, req, served, client, config, keyReads, closeLog, remote,
                 startTime, http>>

(* sftp.NewClient(conn) *)
TFSftp ==
  /\ UNCHANGED <<completions, closeFailed, concVars>>
  /\ pc = "sftp"
  /\ \E ok \in BOOLEAN :
       /\ stages' = Append(stages, [name |-> "sftp", ok |-> ok])
       /\ IF ok
            THEN /\ open' = open \cup {"sftp"}
                 /\ defers' = Defer(defers, "sftp")
                 /\ pc' = "open"
                 /\ UNCHANGED <<resp, err, now>>
            ELSE /\ ReturnFailed("sftp", 0)
                 /\ UNCHANGED <<open, defers>>
  /\ UNCHANGED <<cfg, req, served, client, config, keyReads, dials, closeLog,
                 remote, startTime, http>>

(* os.Open(req.SourceFilePath) *)
TFOpen ==
  /\ UNCHANGED <<completions, closeFailed, concVars>>
  /\ pc = "open"
  /\ stages' = Append(stages, [name |-> "open", ok |-> SourceExists(req.SourceFilePath)])
  /\ IF SourceExists(req.SourceFilePath)
       THEN /\ open' = open \cup {"src"}
            /\ defers' = Defer(defers, "src")
            /\ pc' = "mkdir"
            /\ UNCHANGED <<resp, err, now>>
       ELSE /\ ReturnFailed("open", 0)
            /\ UNCHANGED <<open, defers>>
  /\ UNCHANGED <<cfg, req, served, client, config, keyReads, dials, closeLog,
                 remote, startTime, http>>

(* sftpClient.MkdirAll(filepath.Dir(req.TargetFilePath)) *)
TFMkdir ==
  /\ UNCHANGED <<completions, closeFailed, concVars>>
  /\ pc = "mkdir"
  /\ \E ok \in BOOLEAN :
       /\ stages' = Append(stages, [name |-> "mkdir", ok |-> ok])
       /\ IF ok
            THEN /\ remote' = [remote EXCEPT !.dir = TRUE]
                 /\ pc' = "create"
                 /\ UNCHANGED <<resp, err, now>>
            ELSE /\ ReturnFailed("mkdir", 0)
                 /\ UNCHANGED remote
  /\ UNCHANGED <<cfg, req, served, client, config, keyReads, dials, open, defers,
                 closeLog, startTime, http>>

(* a Create that opens the destination without truncating it *)
TFCreateAppend ==
  /\ UNCHANGED <<completions, closeFailed, concVars>>
  /\ pc = "create"
  /\ \E ok \in BOOLEAN :
       /\ stages' = Append(stages, [name |-> "create", ok |-> ok])
       /\ IF ok
            THEN /\ remote' = [remote EXCEPT !.exists = TRUE]
                 /\ open' = open \cup {"dst"}
                 /\ defers' = Defer(defers, "dst")
                 /\ pc' = "copy"
                 /\ UNCHANGED <<resp, err, now>>
            ELSE /\ ReturnFailed("create", 0)
                 /\ UNCHANGED <<remote, open, defers>>
  /\ UNCHANGED <<cfg, req, served, client, config, keyReads, dials, closeLog,
                 startTime, http>>

(* sftpClient.Create(req.TargetFilePath): creates or truncates *)
TFCreate ==
  /\ UNCHANGED <<completions, closeFailed, concVars>>
  /\ pc = "create"
  /\ \E ok \in BOOLEAN :
       /\ stages' = Append(stages, [name |-> "create", ok |-> ok])
       /\ IF ok
            THEN /\ remote' = [remote EXCEPT !.exists = TRUE, !.data = <<>>]
                 /\ open' = open \cup {"dst"}
                 /\ defers' = Defer(defers, "dst")
                 /\ pc' = "copy"
                 /\ UNCHANGED <<resp, err, now>>
            ELSE /\ ReturnFailed("create", 0)
                 /\ UNCHANGED <<remote, open, defers>>
  /\ UNCHANGED <<cfg, req, served, client, config, keyReads, dials, closeLog,
                 startTime, http>>

(* io.Copy(dstFile, srcFile): m bytes reach the destination; the copy
   returns a nil error exactly when it got to the end of the source.  The
   success path reads the clock for endTime and again for the ID. *)
TFCopy ==
  /\ UNCHANGED <<closeFailed, concVars>>
  /\ pc = "copy"
  /\ LET src == SourceContent(req.SourceFilePath)
     IN  \E m \in 0..Len(src) :
           /\ stages' = Append(stages, [name |-> "copy", ok |-> m = Len(src)])
           /\ remote' = [remote EXCEPT !.data = remote.data \o SubSeq(src, 1, m)]
           /\ IF m = Len(src)
                THEN \E idTime \in LaterReadings :
                       /\ resp' = CompletedResponse(req, m, startTime, now, idTime)
                       /\ err' = NoErr
                       /\ now' = idTime
                       /\ pc' = "tf_defers"
                       /\ completions' = completions + 1
                ELSE /\ ReturnFailed("copy", m)
                     /\ UNCHANGED completions
  /\ UNCHANGED <<cfg, req, served, client, config, keyReads, dials, open, defers,
                 closeLog, startTime, http>>

(* deferred calls that run in the order they were deferred *)
DeferOrderFIFO(stack) == stack

(* the order in which the deferred calls run: last in, first out *)
DeferOrder(stack) == Reverse(stack)

(* the deferred Close calls run, then TransferFile has returned.  Close
   releases the handle; the error it may return is discarded, none of the
   defer statements looks at it: closeFailed tells whether one of them
   returned an error. *)
TFDefers ==
  /\ UNCHANGED <<completions, concVars>>
  /\ pc = "tf_defers"
  /\ closeLog' = closeLog \o DeferOrder(defers)
  /\ \E failed \in {f \in BOOLEAN : f => defers # <<>>} : closeFailed' = failed
  /\ open' = open \ Range(defers)
  /\ defers' = <<>>
  /\ pc' = "tf_returned"
  /\ UNCHANGED <<cfg, req, served, now, client, config, keyReads, dials, stages,
                 remote, startTime, resp, err, http>>

(* a handler that answers 200 with whatever response came back *)
ServerRespondAlwaysOK ==
  /\ UNCHANGED <<completions, concVars>>
  /\ closeFailed' = FALSE
  /\ pc = "tf_returned"
  /\ http' = IF resp # Nil
               THEN [code |-> StatusOK, body |-> resp]
               ELSE [code |-> StatusInternalServerError,
                     body |-> APIError(StatusInternalServerError,
                                       "Failed to transfer file", err)]
  /\ served' = served + 1
  /\ pc' = "done"
  /\ UNCHANGED <<cfg, req, now, client, config, keyReads, dials, stages, open,
                 defers, closeLog, remote, startTime, resp, err>>

(* Server.TransferFile after client.TransferFile has returned *)
ServerRespond ==
  /\ UNCHANGED <<completions, concVars>>
  /\ closeFailed' = FALSE
  /\ pc = "tf_returned"
  /\ http' = IF err # NoErr
               THEN IF resp # Nil
                      THEN [code |-> StatusInternalServerError, body |-> resp]
                      ELSE [code |-> StatusInternalServerError,
                            body |-> APIError(StatusInternalServerError,
                                              "Failed to transfer file", err)]
               ELSE [code |-> StatusOK, body |-> resp]
  /\ served' = served + 1
  /\ pc' = "done"
  /\ UNCHANGED <<cfg, req, now, client, config, keyReads, dials, stages, open,
                 defers, closeLog, remote, startTime, resp, err>>

(* ids a client may ask the status of: ids of completed transfers and an
   id no transfer ever had *)
StatusIds == {<<"transfer-", t>> : t \in 0..MaxTime} \cup {<<"transfer-123456789">>}

(* a status stub that looks the id up and reports the ones it does not know *)
FileTransferStatusLookup(id, t) ==
  [ID |-> id, Status |-> IF id \in {<<"transfer-", u>> : u \in 0..t} THEN "completed"
                         ELSE "not_found",
   PercentComplete |-> 100, BytesTransferred |-> StubBytesTransferred,
   StartTime |-> t - OneMinute, LastUpdated |-> t]

(* models.FileTransferStatus as GetFileTransferStatus fills it *)
FileTransferStatus(id, t) ==
  [ID |-> id, Status |-> "completed", PercentComplete |-> 100,
   BytesTransferred |-> StubBytesTransferred,
   StartTime |-> t - OneMinute, LastUpdated |-> t]

(* Server.GetFileTransferStatus: GET /api/v1/transfers/:id *)
ServerGetStatus(id) ==
  /\ pc = "idle"
  /\ served < MaxRequests
  /\ http' = [code |-> StatusOK, body |-> FileTransferStatus(id, now)]
  /\ served' = served + 1
  /\ pc' = "done"
  /\ UNCHANGED <<cfg, req, now, client, config, keyReads, dials, stages, open,
                 defers, closeLog, closeFailed, remote, startTime, resp, err,
                 completions, concVars>>

(* the handler has returned: its locals are gone, the server waits for
   the next request *)
ServerReturn ==
  /\ UNCHANGED <<completions, concVars>>
  /\ pc = "done"
  /\ pc' = "idle"
  /\ req' = Nil
  /\ client' = Nil
  /\ config' = Nil
  /\ keyReads' = <<>>
  /\ dials' = <<>>
  /\ stages' = <<>>
  /\ closeLog' = <<>>
  /\ startTime' = 0
  /\ resp' = Nil
  /\ err' = NoErr
  /\ http' = Nil
  /\ UNCHANGED <<cfg, served, now, open, defers, closeFailed, remote>>

(* time passes between requests and while TransferFile is in a stage *)
Tick ==
  /\ UNCHANGED <<completions, closeFailed, concVars>>
  /\ pc \notin {"tf_defers", "tf_returned", "done"}
  /\ now < MaxTime
  /\ now' = now + 1
  /\ UNCHANGED <<cfg, pc, req, served, client, config, keyReads, dials, stages,
                 open, defers, closeLog, remote, startTime, resp, err, http>>

Next ==
  \/ \E r \in Requests : ServerTransferFile(r)
  \/ \E id \in StatusIds : ServerGetStatus(id)
  \/ TFConfig
  \/ TFDial
  \/ TFSftp
  \/ TFOpen
  \/ TFMkdir
  \/ TFCreate
  \/ TFCopy
  \/ TFDefers
  \/ ServerRespond
  \/ ServerReturn
  \/ Tick

Spec == Init /\ [][Next]_vars

(* config.Load, the validation of the SSH settings: main starts the server
   only with a configuration that passes it *)
LoadOK(c) ==
  /\ ~(c.SSHKeyPath = "" /\ c.SSHPassword = "")
  /\ c.SSHUsername # ""

InitLoaded == Init /\ LoadOK(cfg)

(* the server as started by main: NewServer(cfg) with cfg from config.Load *)
SpecLoaded == InitLoaded /\ [][Next]_vars

(* ------------------- concurrently running handlers -------------------- *)
(* net/http runs every request in a goroutine of its own; the RateLimiter
   closure and its clients map are shared by all of them.  The map is
   accessed without any lock: the statements of different handlers
   interleave.  The transfer itself is the one of Spec, taken here as a
   blocking call that ends completed or failed. *)
seqVars ==
  <<cfg, pc, req, served, client, config, keyReads, dials, stages, open, defers,
    closeLog, closeFailed, remote, startTime, resp, err, http, completions>>

ConcRequest ==
  [TargetHost |-> "h", TargetPort |-> DefaultSSHPort, SourceFilePath |-> "/tmp/a.txt",
   TargetFilePath |-> "/remote/dir/a.txt", Username |-> "", Password |-> "",
   PrivateKeyPath |-> ""]

(* the statements of the RateLimiter closure that touch the clients map *)
RLSection == {"rl_clean", "rl_exists", "rl_seen", "rl_check", "rl_incr"}

(* clients[ip] of a missing key is a nil *client: using it panics, and
   gin's Recovery middleware answers 500 *)
Panicked(w) ==
  /\ hpc' = [hpc EXCEPT ![w] = "done"]
  /\ hres' = [hres EXCEPT ![w] = [code |-> StatusInternalServerError, body |-> Nil]]
  /\ UNCHANGED <<clients, admitted>>

(* a request arrives: ip := c.ClientIP(); now := time.Now() *)
RLStart(w, ip) ==
  /\ hpc[w] = "idle"
  /\ started < MaxStarted
  /\ started' = started + 1
  /\ hpc' = [hpc EXCEPT ![w] = "rl_clean"]
  /\ hloc' = [hloc EXCEPT ![w] = [ip |-> ip, now |-> now, startTime |-> 0]]
  /\ hres' = [hres EXCEPT ![w] = Nil]
  /\ UNCHANGED <<clients, admitted, now, seqVars>>

(* the clean-up loop over the map *)
RLClean(w) ==
  /\ hpc[w] = "rl_clean"
  /\ clients' = [i \in IPs |->
                   IF clients[i] # Nil /\ hloc[w].now - clients[i].lastSeen > RateLimitDuration
                     THEN Nil ELSE clients[i]]
  /\ hpc' = [hpc EXCEPT ![w] = "rl_exists"]
  /\ UNCHANGED <<hloc, hres, started, admitted, now, seqVars>>

(* if _, exists := clients[ip]; !exists { clients[ip] = &client{0, now} } *)
RLExists(w) ==
  /\ hpc[w] = "rl_exists"
  /\ clients' = IF clients[hloc[w].ip] = Nil
                  THEN [clients EXCEPT ![hloc[w].ip] = [count |-> 0, lastSeen |-> hloc[w].now]]
                  ELSE clients
  /\ hpc' = [hpc EXCEPT ![w] = "rl_seen"]
  /\ UNCHANGED <<hloc, hres, started, admitted, now, seqVars>>

(* clients[ip].lastSeen = now *)
RLSeen(w) ==
  /\ hpc[w] = "rl_seen"
  /\ IF clients[hloc[w].ip] = Nil
       THEN Panicked(w)
       ELSE /\ clients' = [clients EXCEPT ![hloc[w].ip].lastSeen = hloc[w].now]
            /\ hpc' = [hpc EXCEPT ![w] = "rl_check"]
            /\ UNCHANGED <<hres, admitted>>
  /\ UNCHANGED <<hloc, started, now, seqVars>>

(* a check that answers 429 and then goes on instead of returning *)
RLCheckNoAbort(w) ==
  /\ hpc[w] = "rl_check"
  /\ IF clients[hloc[w].ip] = Nil
       THEN Panicked(w)
       ELSE /\ IF clients[hloc[w].ip].count >= RateLimitRequests
                 THEN hres' = [hres EXCEPT ![w] =
                                 [code |-> StatusTooManyRequests,
                                  body |-> [Code |-> StatusTooManyRequests,
                                            Message |-> "Rate limit exceeded"]]]
                 ELSE UNCHANGED hres
            /\ hpc' = [hpc EXCEPT ![w] = "rl_incr"]
            /\ UNCHANGED <<clients, admitted>>
  /\ UNCHANGED <<hloc, started, now, seqVars>>

(* if clients[ip].count >= requests { 429; c.Abort(); return } *)
RLCheck(w) ==
  /\ hpc[w] = "rl_check"
  /\ IF clients[hloc[w].ip] = Nil
       THEN Panicked(w)
       ELSE /\ IF clients[hloc[w].ip].count >= RateLimitRequests
                 THEN /\ hres' = [hres EXCEPT ![w] =
                                    [code |-> StatusTooManyRequests,
                                     body |-> [Code |-> StatusTooManyRequests,
                                               Message |-> "Rate limit exceeded"]]]
                      /\ hpc' = [hpc EXCEPT ![w] = "done"]
                 ELSE /\ hpc' = [hpc EXCEPT ![w] = "rl_incr"]
                      /\ UNCHANGED hres
            /\ UNCHANGED <<clients, admitted>>
  /\ UNCHANGED <<hloc, started, now, seqVars>>

(* clients[ip].count++; c.Next() *)
RLIncr(w) ==
  /\ hpc[w] = "rl_incr"
  /\ IF clients[hloc[w].ip] = Nil
       THEN Panicked(w)
       ELSE /\ clients' = [clients EXCEPT ![hloc[w].ip].count = @ + 1]
            /\ admitted' = Append(admitted, [ip |-> hloc[w].ip, t |-> hloc[w].now])
            /\ hpc' = [hpc EXCEPT ![w] = "route"]
            /\ UNCHANGED hres
  /\ UNCHANGED <<hloc, started, now, seqVars>>

(* c.Next() runs the handler of the route the request matched.  The
   closure above never looks at the route, so the three route handlers
   below are the three kinds of request a handler at "route" can be. *)
ConcStatusId == <<"transfer-123456789">>

(* GET /health: Server.HealthCheck *)
ConcHealthCheck(w) ==
  /\ hpc[w] = "route"
  /\ hres' = [hres EXCEPT ![w] = [code |-> StatusOK,
                                  body |-> [status |-> "ok", time |-> now]]]
  /\ hpc' = [hpc EXCEPT ![w] = "done"]
  /\ UNCHANGED <<clients, hloc, started, admitted, now, seqVars>>

(* GET /api/v1/transfers/:id: Server.GetFileTransferStatus *)
ConcGetStatus(w) ==
  /\ hpc[w] = "route"
  /\ hres' = [hres EXCEPT ![w] = [code |-> StatusOK,
                                  body |-> FileTransferStatus(ConcStatusId, now)]]
  /\ hpc' = [hpc EXCEPT ![w] = "done"]
  /\ UNCHANGED <<clients, hloc, started, admitted, now, seqVars>>

(* POST /api/v1/transfers: the route handler begins the transfer,
   startTime := time.Now() *)
ConcTransferStart(w) ==
  /\ hpc[w] = "route"
  /\ hloc' = [hloc EXCEPT ![w].startTime = now]
  /\ hpc' = [hpc EXCEPT ![w] = "transfer"]
  /\ UNCHANGED <<clients, hres, started, admitted, now, seqVars>>

(* the transfer ends, completed or failed at the dial, and is answered *)
ConcTransferEnd(w) ==
  /\ hpc[w] = "transfer"
  /\ \E ok \in BOOLEAN, later \in LaterReadings :
       /\ hres' = [hres EXCEPT ![w] =
                     IF ok
                       THEN [code |-> StatusOK,
                             body |-> CompletedResponse(ConcRequest, MaxLen,
                                                        hloc[w].startTime, now, later)]
                       ELSE [code |-> StatusInternalServerError,
                             body |-> FailedResponse(ConcRequest, "dial", 0,
                                                     hloc[w].startTime, now, later)]]
       /\ now' = later
  /\ hpc' = [hpc EXCEPT ![w] = "done"]
  /\ UNCHANGED <<clients, hloc, started, admitted, seqVars>>

(* the handler chain has returned *)
ConcReturn(w) ==
  /\ hpc[w] = "done"
  /\ hpc' = [hpc EXCEPT ![w] = "idle"]
  /\ hloc' = [hloc EXCEPT ![w] = Nil]
  /\ UNCHANGED <<clients, hres, started, admitted, now, seqVars>>

(* time passes *)
ConcTick ==
  /\ now < MaxTime
  /\ now' = now + 1
  /\ UNCHANGED <<concVars, seqVars>>

ConcInit ==
  /\ Init
  /\ cfg = [SSHUsername |-> "du", SSHPassword |-> "dp", SSHKeyPath |-> ""]

ConcNext ==
  \/ \E w \in Workers, ip \in IPs : RLStart(w, ip)
  \/ \E w \in Workers : RLClean(w)
  \/ \E w \in Workers : RLExists(w)
  \/ \E w \in Workers : RLSeen(w)
  \/ \E w \in Workers : RLCheck(w)
  \/ \E w \in Workers : RLIncr(w)
  \/ \E w \in Workers : ConcHealthCheck(w)
  \/ \E w \in Workers : ConcGetStatus(w)
  \/ \E w \in Workers : ConcTransferStart(w)
  \/ \E w \in Workers : ConcTransferEnd(w)
  \/ \E w \in Workers : ConcReturn(w)
  \/ ConcTick

(* the server with its handlers running concurrently *)
SpecConc == ConcInit /\ [][ConcNext]_vars

(* a request that arrives when no other request is being handled *)
SerialStart(w, ip) ==
  /\ \A v \in Workers : hpc[v] = "idle"
  /\ RLStart(w, ip)

SerialNext ==
  \/ \E w \in Workers, ip \in IPs : SerialStart(w, ip)
  \/ \E w \in Workers : RLClean(w)
  \/ \E w \in Workers : RLExists(w)
  \/ \E w \in Workers : RLSeen(w)
  \/ \E w \in Workers : RLCheck(w)
  \/ \E w \in Workers : RLIncr(w)
  \/ \E w \in Workers : ConcHealthCheck(w)
  \/ \E w \in Workers : ConcGetStatus(w)
  \/ \E w \in Workers : ConcTransferStart(w)
  \/ \E w \in Workers : ConcTransferEnd(w)
  \/ \E w \in Workers : ConcReturn(w)
  \/ ConcTick

(* the server with its requests arriving one after another: the handler
   chain of a request has returned before the next request arrives *)
SpecSerial == ConcInit /\ [][SerialNext]_vars

(* ============================ properties ============================== *)
Returned == pc \in {"tf_returned", "done"} /\ (err # NoErr \/ resp # Nil)

StageOrder == [i \in 1..Len(StageNames) |-> StageNames[i]]

StageNamesOf(st) == [i \in 1..Len(st) |-> st[i].name]

AllStagesOK ==
  /\ Len(stages) = Len(StageNames)
  /\ \A i \in 1..Len(stages) : stages[i].ok

HandleOf(stage) ==
  CASE stage = "dial" -> "conn"
    [] stage = "sftp" -> "sftp"
    [] stage = "open" -> "src"
    [] stage = "create" -> "dst"

(* the handles the stages of this request have opened *)
OpenedHandles ==
  {HandleOf(stages[i].name) :
     i \in {j \in 1..Len(stages) :
              stages[j].ok /\ stages[j].name \in {"dial", "sftp", "open", "create"}}}

RequestOverrides ==
  req.Username # "" \/ req.Password # "" \/ req.PrivateKeyPath # ""

(* C1: TransferFile always returns a non-nil result; when a stage,
   credential resolution included, has failed, the result has status
   "failed", a non-empty error string and both timestamps, and the error is
   returned as well. *)
C1_AlwaysResult ==
  Returned =>
    /\ resp # Nil
    /\ (err # NoErr =>
          /\ resp.Status = "failed"
          /\ resp.Error # <<>>
          /\ resp.StartTime \in 0..MaxTime
          /\ resp.EndTime \in 0..MaxTime)

(* C2: when dial, session open, source open, directory preparation,
   destination create and copy have all succeeded, TransferFile returns
   status "completed", a nil error and bytes_written equal to the length of
   the source file. *)
C2_CompletedExactLength ==
  (Returned /\ AllStagesOK) =>
    /\ resp # Nil
    /\ resp.Status = "completed"
    /\ err = NoErr
    /\ resp.BytesWritten = Len(SourceContent(req.SourceFilePath))

C2_Witness ==
  /\ pc = "tf_returned"
  /\ AllStagesOK
  /\ resp # Nil
  /\ resp.BytesWritten = MaxLen
  /\ MaxLen > 0

(* C3: in every result TransferFile returns, status is "failed" exactly
   when the error string is non-empty, "completed" exactly when it is
   empty, and the error return is non-nil exactly when status is "failed". *)
C3_StatusErrorAgree ==
  (Returned /\ resp # Nil) =>
    /\ resp.Status \in {"failed", "completed"}
    /\ (resp.Status = "failed" <=> resp.Error # <<>>)
    /\ (resp.Status = "completed" <=> resp.Error = <<>>)
    /\ (err # NoErr <=> resp.Status = "failed")

C3_Witness ==
  /\ pc = "tf_returned"
  /\ resp # Nil
  /\ resp.Status = "failed"
  /\ resp.Error # <<>>
  /\ err # NoErr

(* C4: the stages run in the order credential resolution, dial, session
   open, source open, directory preparation, destination create, copy; no
   stage is attempted after a failed one; the error string of the result
   names the stage that failed. *)
C4_OrderedShortCircuit ==
  Returned =>
    /\ StageNamesOf(stages) = SubSeq(StageOrder, 1, Len(stages))
    /\ \A i \in 1..Len(stages) - 1 : stages[i].ok
    /\ (config = Nil => stages = <<>>)
    /\ (err # NoErr =>
          /\ resp # Nil
          /\ resp.Error # <<>>
          /\ resp.Error[1] = IF config = Nil
                               THEN "unable to resolve credentials"
                               ELSE StageError(stages[Len(stages)].name))

(* C5: when TransferFile has returned, every handle opened on the path it
   took has been closed; the transport is closed when session open fails,
   transport and session are closed when source open fails. *)
C5_HandlesClosed ==
  pc \in {"tf_returned", "done"} =>
    /\ open = {}
    /\ OpenedHandles \subseteq Range(closeLog)

C5_Witness ==
  /\ pc = "tf_returned"
  /\ Len(stages) = 3
  /\ ~stages[3].ok
  /\ OpenedHandles = {"conn", "sftp"}
  /\ Range(closeLog) = {"conn", "sftp"}

(* C6: a request for which neither the request nor the service default
   has a password or a key path fails at credential resolution, and no
   dial is attempted for it. *)
C6_NoCredentialNoDial ==
  (/\ req # Nil
   /\ req.Password = "" /\ req.PrivateKeyPath = ""
   /\ cfg.SSHPassword = "" /\ cfg.SSHKeyPath = "") =>
    /\ dials = <<>>
    /\ pc = "done"
    /\ BindOK(req) =>
         http = [code |-> StatusInternalServerError,
                 body |-> APIError(StatusInternalServerError,
                                   "Failed to create SSH client",
                                   "either password or keyPath must be provided")]

C6_Witness ==
  /\ req # Nil
  /\ BindOK(req)
  /\ req.Username = "ru"
  /\ req.Password = "" /\ req.PrivateKeyPath = ""
  /\ cfg.SSHPassword = "" /\ cfg.SSHKeyPath = ""
  /\ pc = "done"
  /\ http.code = StatusInternalServerError

(* C7: every dial of TransferFile uses a configuration with exactly one
   authentication method (a password or a private key), whatever the
   request and the service default hold; a request without any
   authentication method is rejected before any dial. *)
C7_OneAuthMethod ==
  /\ \A i \in 1..Len(dials) :
       /\ Len(dials[i].config.Auth) = 1
       /\ dials[i].config.Auth[1].kind \in {"password", "publickey"}
  /\ (/\ req # Nil
      /\ Resolve(req.Password, cfg.SSHPassword) = ""
      /\ Resolve(req.PrivateKeyPath, cfg.SSHKeyPath) = "") => dials = <<>>

(* C8: the credentials used for the dial are resolved field by field:
   request value when non-empty, else the service default; then the
   password when present, else the key path. *)
C8_PerFieldResolution ==
  \A i \in 1..Len(dials) :
    LET username == Resolve(req.Username, cfg.SSHUsername)
        password == Resolve(req.Password, cfg.SSHPassword)
        keyPath == Resolve(req.PrivateKeyPath, cfg.SSHKeyPath)
    IN  /\ dials[i].config.User = username
        /\ dials[i].config.Auth = IF password # ""
                                    THEN <<PasswordAuth(password)>>
                                    ELSE <<PublicKeysAuth(keyPath)>>

(* C9: when the request sets any of username, password, key path, the
   configuration of the dial is built from the request values alone: its
   user is the request's username, its authentication the request's
   password, else the request's key, and none of it comes from the
   service default. *)
C9_WholesaleOverride ==
  \A i \in 1..Len(dials) :
    RequestOverrides =>
      /\ dials[i].config.User = req.Username
      /\ dials[i].config.Auth =
           IF req.Password # "" THEN <<PasswordAuth(req.Password)>>
           ELSE IF req.PrivateKeyPath # "" THEN <<PublicKeysAuth(req.PrivateKeyPath)>>
           ELSE <<>>
      /\ \A k \in 1..Len(keyReads) :
           keyReads[k].by = "TransferFile" => keyReads[k].path = req.PrivateKeyPath

C9_Witness ==
  /\ Len(dials) = 1
  /\ req.Username = "" /\ req.Password = "rp" /\ req.PrivateKeyPath = ""
  /\ cfg.SSHUsername = "du" /\ cfg.SSHPassword = "" /\ cfg.SSHKeyPath = "dk_ok"
  /\ dials[1].config.Auth = <<PasswordAuth("rp")>>

ReadsOf(who) == {keyReads[k].path : k \in {j \in 1..Len(keyReads) : keyReads[j].by = who}}

(* C10: NewClient uses the password whenever it is non-empty and then
   reads no key file, even when a key path is given or unreadable; it uses
   the key only when the password is empty and the key path is not. *)
C10_PasswordPreferred ==
  (req # Nil /\ BindOK(req)) =>
    LET username == Resolve(req.Username, cfg.SSHUsername)
        password == Resolve(req.Password, cfg.SSHPassword)
        keyPath == Resolve(req.PrivateKeyPath, cfg.SSHKeyPath)
    IN  /\ password # "" =>
             /\ client = ClientConfig(username, <<PasswordAuth(password)>>)
             /\ ReadsOf("NewClient") = {}
        /\ (client # Nil /\ client.Auth[1].kind = "publickey") =>
             /\ password = "" /\ keyPath # ""
             /\ client.Auth = <<PublicKeysAuth(keyPath)>>
             /\ ReadsOf("NewClient") = {keyPath}

C10_Witness ==
  /\ req # Nil /\ BindOK(req)
  /\ req.Password = "rp" /\ req.PrivateKeyPath = "rk_unreadable"
  /\ client # Nil
  /\ client.Auth = <<PasswordAuth("rp")>>
  /\ ReadsOf("NewClient") = {}

(* C11: NewClient returns an error and no client when password and key
   path are both empty, a key-read error when the password is empty and the
   key file cannot be read, a key-parse error when the key is invalid; it
   performs no network operation. *)
C11_NewClientErrors ==
  (req # Nil /\ BindOK(req)) =>
    LET password == Resolve(req.Password, cfg.SSHPassword)
        keyPath == Resolve(req.PrivateKeyPath, cfg.SSHKeyPath)
        Failed(details) ==
          /\ client = Nil
          /\ pc = "done"
          /\ http = [code |-> StatusInternalServerError,
                     body |-> APIError(StatusInternalServerError,
                                       "Failed to create SSH client", details)]
    IN  /\ (password = "" /\ keyPath = "") =>
             Failed("either password or keyPath must be provided")
        /\ (password = "" /\ keyPath # "" /\ ReadFile(keyPath).err # NoErr) =>
             Failed("unable to read private key")
        /\ (password = "" /\ keyPath # "" /\ ReadFile(keyPath).err = NoErr
              /\ ParsePrivateKey(ReadFile(keyPath).data).err # NoErr) =>
             Failed("unable to parse private key")
        /\ (client = Nil \/ pc = "tf_config") =>
             (dials = <<>> /\ stages = <<>> /\ open = {})

C11_Witness ==
  /\ req # Nil /\ BindOK(req)
  /\ req.Password = "" /\ cfg.SSHPassword = ""
  /\ req.PrivateKeyPath = "rk_invalid"
  /\ client = Nil
  /\ http.body.Details = "unable to parse private key"
  /\ dials = <<>>

(* C12: when the copy fails after M bytes of an N byte source, M < N, the
   result has status "failed", bytes_written M, an error string naming the
   copy stage, and all four handles have been closed. *)
C12_PartialCopy ==
  (Returned /\ Len(stages) = Len(StageNames) /\ ~stages[Len(stages)].ok) =>
    /\ resp # Nil
    /\ resp.Status = "failed"
    /\ Len(remote.data) < Len(SourceContent(req.SourceFilePath))
    /\ resp.BytesWritten = Len(remote.data)
    /\ resp.Error[1] = "failed to copy file contents"
    /\ open = {}
    /\ Range(closeLog) = Handles

C12_Witness ==
  /\ pc = "tf_returned"
  /\ Len(stages) = Len(StageNames)
  /\ ~stages[Len(stages)].ok
  /\ Len(remote.data) = 1
  /\ resp.BytesWritten = 1
  /\ Len(SourceContent(req.SourceFilePath)) > 1

(* C13: within one call of TransferFile every stage operation is
   attempted at most once, a failed stage is not attempted again, and the
   request gets exactly one result: what TransferFile returned and what
   the handler answered do not change afterwards. *)
C13_NoRetry ==
  /\ [](/\ \A i, j \in 1..Len(stages) : stages[i].name = stages[j].name => i = j
        /\ Len(dials) <= 1
        /\ \A i \in 1..Len(stages) - 1 : stages[i].ok)
  /\ [][/\ pc = "tf_returned" => (resp' = resp /\ err' = err /\ stages' = stages)
        /\ http # Nil => (http' = http \/ (http' = Nil /\ pc' = "idle"))]_vars

C13_Witness ==
  /\ pc = "done"
  /\ stages = <<[name |-> "dial", ok |-> FALSE]>>
  /\ Len(dials) = 1
  /\ http # Nil
  /\ http.body = resp

(* C14: a POST whose target_port is omitted or zero is processed with
   effective port 22: it is not turned away, and its dial goes to port 22. *)
C14_DefaultPort ==
  (/\ pc = "done" /\ req # Nil
   /\ req.TargetHost # "" /\ req.SourceFilePath # "" /\ req.TargetFilePath # "") =>
    /\ http.code # StatusBadRequest
    /\ req.TargetPort # 0
    /\ \A i \in 1..Len(dials) : dials[i].port = req.TargetPort

(* C16: the POST handler answers 400 exactly when a required field is
   missing, 200 with the result exactly when the transfer completed, and
   500 otherwise, with the failed result as body when there is one and an
   APIError {code, message, details} when there is none. *)
C16_StatusCodes ==
  (pc = "done" /\ req # Nil) =>
    /\ http.code \in {StatusBadRequest, StatusOK, StatusInternalServerError}
    /\ (http.code = StatusBadRequest <=> ~BindOK(req))
    /\ (http.code = StatusOK <=> (resp # Nil /\ resp.Status = "completed"))
    /\ (http.code = StatusOK => http.body = resp)
    /\ (http.code = StatusInternalServerError =>
          IF resp # Nil
            THEN http.body = resp /\ resp.Status = "failed"
            ELSE /\ DOMAIN http.body = {"Code", "Message", "Details"}
                 /\ http.body.Code = StatusInternalServerError)

C16_Witness ==
  /\ pc = "done" /\ req # Nil
  /\ http.code = StatusInternalServerError
  /\ resp # Nil
  /\ resp.Status = "failed"
  /\ http.body = resp

(* C19: a successful transfer that follows an earlier successful transfer
   of the same source to the same destination leaves the destination with
   exactly the source content, and reports the full source length. *)
C19_RepeatOverwrites ==
  (Returned /\ resp # Nil /\ resp.Status = "completed" /\ completions >= 2) =>
    /\ remote.data = SourceContent(req.SourceFilePath)
    /\ resp.BytesWritten = Len(SourceContent(req.SourceFilePath))

C19_Witness ==
  /\ pc = "tf_returned"
  /\ resp # Nil /\ resp.Status = "completed"
  /\ completions = 2
  /\ served = 1
  /\ remote.data = SourceContent(req.SourceFilePath)
  /\ Len(remote.data) > 0

(* C20: GET /api/v1/transfers/{id} answers 200 with status "completed"
   for every id, also for ids no transfer ever had, and the step leaves
   every piece of transfer state as it was. *)
C20_StatusStub ==
  /\ []((pc = "done" /\ req = Nil /\ http # Nil) =>
          /\ http.code = StatusOK
          /\ http.body.ID \in StatusIds
          /\ http.body.Status = "completed")
  /\ [][(pc = "idle" /\ pc' = "done" /\ req' = Nil) =>
          UNCHANGED <<cfg, remote, completions, resp, err, stages, dials, open,
                      client, clients>>]_vars

C20_Witness ==
  /\ pc = "done" /\ req = Nil /\ http # Nil
  /\ completions = 0
  /\ served = 2
  /\ http.body.ID = <<"transfer-123456789">>
  /\ http.body.Status = "completed"

(* the handler has answered with the result of a completed transfer *)
Completed(w) ==
  /\ hres[w] # Nil
  /\ hres[w].code = StatusOK
  /\ "BytesWritten" \in DOMAIN hres[w].body

(* C15: any two completed transfers, transfers that run concurrently and
   complete at the same reading of the clock included, carry distinct
   identifiers. *)
C15_DistinctIds ==
  \A w1, w2 \in Workers :
    (w1 # w2 /\ Completed(w1) /\ Completed(w2)) => hres[w1].body.ID # hres[w2].body.ID

(* C17: no two request handlers are inside the read/prune/insert/increment
   section of the rate limiter's clients map at the same time. *)
C17_MutualExclusion ==
  \A w1, w2 \in Workers :
    (hpc[w1] \in RLSection /\ hpc[w2] \in RLSection) => w1 = w2

AdmittedIn(ip, t) ==
  {i \in 1..Len(admitted) :
     admitted[i].ip = ip /\ t <= admitted[i].t /\ admitted[i].t <= t + RateLimitDuration}

(* C18: for every client address and every window of length duration, the
   number of that client's requests the rate limiter admitted in the window
   never exceeds requests, whatever the interleaving of the handlers. *)
C18_WindowLimit ==
  \A ip \in IPs, t \in 0..MaxTime : Cardinality(AdmittedIn(ip, t)) <= RateLimitRequests

(* C21: in every result TransferFile returns, completed or failed, the end
   time is not before the start time, the duration is not negative, and the
   duration equals end time minus start time. *)
C21_TimesConsistent ==
  (Returned /\ resp # Nil) =>
    /\ resp.EndTime >= resp.StartTime
    /\ resp.Duration >= 0
    /\ resp.Duration = resp.EndTime - resp.StartTime

(* C22: no failure of an operation of the transfer is swallowed: when a
   stage has failed, or the Close of the destination file, the session or
   the transport has failed after the copy, the returned result has status
   "failed". *)
C22_NothingSwallowed ==
  (/\ pc = "tf_returned"
   /\ resp # Nil
   /\ (closeFailed \/ \E i \in 1..Len(stages) : ~stages[i].ok)) =>
    resp.Status = "failed"

(* the handles of this request in the order the stages acquired them *)
Acquired ==
  LET got == SelectSeq(stages, LAMBDA st : st.ok /\ st.name \in {"dial", "sftp", "open", "create"})
  IN  [i \in 1..Len(got) |-> HandleOf(got[i].name)]

(* C25: on every path of TransferFile the handles are released in the
   reverse order of their acquisition (destination file, source file,
   session, transport), none is released before the return, and the
   transport is closed last: never while the session or the destination
   file is still open. *)
C25_ReverseRelease ==
  /\ pc \in {"tf_returned", "done"} =>
       /\ Len(closeLog) = Len(Acquired)
       /\ \A i \in 1..Len(closeLog) : closeLog[i] = Acquired[Len(Acquired) + 1 - i]
       /\ \A i, j \in 1..Len(closeLog) :
            (closeLog[i] = "conn" /\ closeLog[j] \in {"sftp", "dst", "src"}) => j < i
  /\ pc \notin {"tf_returned", "done", "idle"} =>
       /\ closeLog = <<>>
       /\ open = Range(Acquired)

C25_Witness ==
  /\ pc = "tf_returned"
  /\ Acquired = <<"conn", "sftp", "src", "dst">>
  /\ closeLog = <<"dst", "src", "sftp", "conn">>
  /\ open = {}

(* C26: a result of a transfer that failed before the copy stage (dial,
   session open, source open, directory preparation, destination create)
   has bytes_written 0; every failed result has an empty identifier, and
   only completed results carry a non-empty one. *)
C26_FailedZeroBytesNoId ==
  (Returned /\ resp # Nil) =>
    /\ (/\ stages # <<>>
        /\ ~stages[Len(stages)].ok
        /\ stages[Len(stages)].name # "copy") =>
         /\ resp.Status = "failed"
         /\ resp.BytesWritten = 0
    /\ resp.Status = "failed" => resp.ID = <<>>
    /\ resp.ID # <<>> => resp.Status = "completed"

C26_Witness ==
  /\ pc = "tf_returned"
  /\ Len(stages) = 5
  /\ stages[5] = [name |-> "create", ok |-> FALSE]
  /\ resp.Status = "failed"
  /\ resp.BytesWritten = 0
  /\ resp.ID = <<>>

(* C24: TransferFile does not modify the configuration stored in its
   Client: a request with credential overrides dials with a configuration
   of its own, a transfer without overrides dials with the Client's
   configuration as NewClient built it from the service default, the
   service default itself never changes, and a result that has been
   returned stays as it is. *)
C24_ClientConfigUnchanged ==
  /\ [](\A i \in 1..Len(dials) :
          /\ dials[i].config = config
          /\ ~RequestOverrides =>
               /\ dials[i].config = client
               /\ client = NewClient(cfg.SSHUsername, cfg.SSHPassword,
                                     cfg.SSHKeyPath).client)
  /\ [][/\ cfg' = cfg
        /\ pc \notin {"idle", "done"} => client' = client
        /\ pc \in {"tf_returned", "done"} /\ pc' # "idle" => resp' = resp /\ err' = err]_vars

C24_Witness ==
  /\ pc = "tf_returned"
  /\ served = 1
  /\ req.Username = "ru" /\ req.Password = "" /\ req.PrivateKeyPath = ""
  /\ Len(dials) = 1
  /\ dials[1].config = ClientConfig("ru", <<>>)
  /\ client = ClientConfig("ru", <<PasswordAuth("dp")>>)

(* C23: a client that was answered 429 is admitted again once more than
   duration has passed since its counted requests, also when it keeps
   sending requests in the meantime: a request is rejected only if one of
   the client's counted requests is at most duration old. *)
C23_RollingWindow ==
  \A w \in Workers :
    (hpc[w] = "done" /\ hres[w].code = StatusTooManyRequests) =>
      \E i \in 1..Len(admitted) :
        /\ admitted[i].ip = hloc[w].ip
        /\ hloc[w].now - admitted[i].t <= RateLimitDuration

(* an answer written by one of the three route handlers *)
RouteAnswer(res) ==
  /\ res # Nil
  /\ res.code # StatusTooManyRequests
  /\ res.body # Nil

(* C27: a request the rate limiter rejects is answered 429, never reaches
   a route handler (no transfer starts for it) and does not change the
   client's count; the limiter is in front of every route: a health or a
   status request is answered only after it was counted like a transfer
   request. *)
C27_RejectedStopsAtLimiter ==
  /\ [](\A w \in Workers :
          (hres[w] # Nil /\ hres[w].code = StatusTooManyRequests) =>
            hpc[w] \in {"done", "idle"})
  /\ [][\A w \in Workers :
          /\ (hres'[w] # hres[w] /\ hres'[w] # Nil
                /\ hres'[w].code = StatusTooManyRequests) =>
               /\ hpc[w] = "rl_check" /\ hpc'[w] = "done"
               /\ clients[hloc[w].ip].count >= RateLimitRequests
               /\ clients' = clients
               /\ admitted' = admitted
          /\ (hpc[w] = "done" /\ hpc'[w] # "done") =>
               (hpc'[w] = "idle" /\ hres'[w] = hres[w])
          /\ (hpc[w] # "route" /\ hpc'[w] = "route") =>
               /\ hpc[w] = "rl_incr"
               /\ clients'[hloc[w].ip].count = clients[hloc[w].ip].count + 1
               /\ Len(admitted') = Len(admitted) + 1
          /\ (hres'[w] # hres[w] /\ RouteAnswer(hres'[w])) =>
               hpc[w] \in {"route", "transfer"}
          /\ (hpc[w] # "transfer" /\ hpc'[w] = "transfer") => hpc[w] = "route"]_vars

C27_Witness ==
  \E w1, w2 \in Workers :
    /\ hpc[w1] = "idle" /\ hpc[w2] = "done"
    /\ hres[w1] # Nil
    /\ hres[w1].code = StatusOK
    /\ hres[w1].body = [status |-> "ok", time |-> hres[w1].body.time]
    /\ hres[w2].code = StatusTooManyRequests
    /\ Len(admitted) = RateLimitRequests
    /\ admitted[1].ip = hloc[w2].ip
    /\ clients[hloc[w2].ip].count = RateLimitRequests

====
